---------------------------- MODULE Spec2Model ----------------------------
(***************************************************************************)
(* A model of CompetitionState (code/compstate/compstate.cpp): the box     *)
(* store with its freshness flags, the acquisition score, the tracking     *)
(* flags, the path and the two procedure slots.                            *)
(*                                                                         *)
(* Doubles are modelled as exact rationals [num, den] in lowest terms.     *)
(* The input sets hold integer-valued coordinates whose quotients are all  *)
(* dyadic, so every double operation of acquisition_r is exact on them.    *)
(***************************************************************************)
EXTENDS Integers, Sequences, FiniteSets, TLC

(* ------------------------------ bounds -------------------------------- *)

\* longest path the model appends to (append_path itself is unbounded)
MaxPath == 1
\* longest path of the motion specification
MaxMotionPath == 3
\* number of heap cells available to Procedure / ObjectProcedure instances
MaxInst == 3

(* ---------------------------- rationals ------------------------------- *)

Abs(a) == IF a < 0 THEN -a ELSE a

RECURSIVE Gcd(_, _)
Gcd(a, b) == IF b = 0 THEN a ELSE Gcd(b, a % b)

\* the double n / d, for d # 0
Rat(n, d) ==
    LET g == Gcd(Abs(n), Abs(d))
        s == IF d < 0 THEN -1 ELSE 1
    IN  [num |-> (s * n) \div g, den |-> (s * d) \div g]

RMul(a, b) == Rat(a.num * b.num, a.den * b.den)
RLess(a, b) == a.num * b.den < b.num * a.den
RLeq(a, b) == a.num * b.den <= b.num * a.den

(* ------------------------------ values -------------------------------- *)

\* cv::Rect2d
Rect2d(x, y, width, height) ==
    [x |-> x, y |-> y, width |-> width, height |-> height]

\* cv::Rect2d(): the default-constructed rectangle
ZeroRect == Rect2d(0, 0, 0, 0)

\* a null pointer (unique_ptr, label pointer)
nullptr == 0

\* enum value the constructor stores in m_object_type
UNACQUIRED == 0

\* the sentinel score
Sentinel == 1000

\* The storage byte of a bool member. A written bool is 0 (false) or 1 (true);
\* a bool that was never written holds whatever its storage held: 0, 1, or
\* another byte. 2 stands for the other bytes whose lowest bit is clear (0x02,
\* 0x80), 3 for the other bytes whose lowest bit is set (0x03, 0xff).
IndeterminateBytes == {0, 1, 2, 3}

\* what a caller can see when it reads the bool: the value of a written one;
\* of a byte that is neither 0 nor 1 the function returns the raw byte, on
\* which if (r) and if (!r) are both taken
bool_read(byte) == IF byte \in {0, 1} THEN {byte = 1} ELSE BOOLEAN

\* the byte a bool is stored as
byte_of(b) == IF b THEN 1 ELSE 0

\* fresh && !consume, stored back. With consume false this is the flag
\* itself, and a build may store the byte back as it is; a build that tests
\* the byte against zero stores a non-zero byte as 1, and one that takes the
\* lowest bit stores that bit. With consume true every build stores 0. All
\* agree on the bytes 0 and 1.
fresh_and_not_consume(byte, consume) ==
    IF consume
    THEN {byte_of(FALSE)}
    ELSE {byte, byte_of(byte # 0), byte_of(byte % 2 = 1)}

(* ------------------------- acquisition score -------------------------- *)

\* acquisition_r with the divisions it executes, in order, as
\* <<dividend, divisor>> pairs
acquisition_r_early_division(rect, calibrated_area) ==
    LET area == rect.width * rect.height
        tdiv == IF rect.width > rect.height
                THEN <<rect.width, rect.height>>
                ELSE <<rect.height, rect.width>>
    IN  IF area = 0
        THEN [ret |-> Rat(Sentinel, 1), divisions |-> <<tdiv>>]
        ELSE LET t == Rat(tdiv[1], tdiv[2])
                 larger == IF area > calibrated_area THEN area ELSE calibrated_area
             IN  IF RLeq(t, Rat(99, 100))
                 THEN [ret |-> Rat(Sentinel, 1), divisions |-> <<tdiv>>]
                 ELSE [ret |-> RMul(Rat(Abs(area - calibrated_area), larger), t),
                       divisions |-> <<tdiv, <<Abs(area - calibrated_area), larger>> >>]

\* acquisition_r taking width / height as t whichever side is longer
acquisition_r_no_swap(rect, calibrated_area) ==
    LET area == rect.width * rect.height
    IN  IF area = 0
        THEN [ret |-> Rat(Sentinel, 1), divisions |-> <<>>]
        ELSE LET tdiv == <<rect.width, rect.height>>
                 t == Rat(tdiv[1], tdiv[2])
                 larger == IF area > calibrated_area THEN area ELSE calibrated_area
             IN  IF RLeq(t, Rat(99, 100))
                 THEN [ret |-> Rat(Sentinel, 1), divisions |-> <<tdiv>>]
                 ELSE [ret |-> RMul(Rat(Abs(area - calibrated_area), larger), t),
                       divisions |-> <<tdiv, <<Abs(area - calibrated_area), larger>> >>]

\* acquisition_r dividing the shorter side by the longer one
acquisition_r_inverted_ratio(rect, calibrated_area) ==
    LET area == rect.width * rect.height
    IN  IF area = 0
        THEN [ret |-> Rat(Sentinel, 1), divisions |-> <<>>]
        ELSE LET tdiv == IF rect.width > rect.height
                         THEN <<rect.height, rect.width>>
                         ELSE <<rect.width, rect.height>>
                 t == Rat(tdiv[1], tdiv[2])
                 larger == IF area > calibrated_area THEN area ELSE calibrated_area
             IN  IF RLeq(t, Rat(99, 100))
                 THEN [ret |-> Rat(Sentinel, 1), divisions |-> <<tdiv>>]
                 ELSE [ret |-> RMul(Rat(Abs(area - calibrated_area), larger), t),
                       divisions |-> <<tdiv, <<Abs(area - calibrated_area), larger>> >>]

\* The literal 0.99 is taken as 99/100: no quotient of two of the inputs lies
\* between 99/100 and the double nearest to it.
acquisition_r_run(rect, calibrated_area) ==
    LET area == rect.width * rect.height
    IN  IF area = 0
        THEN [ret |-> Rat(Sentinel, 1), divisions |-> <<>>]
        ELSE LET tdiv == IF rect.width > rect.height
                         THEN <<rect.width, rect.height>>
                         ELSE <<rect.height, rect.width>>
                 t == Rat(tdiv[1], tdiv[2])
                 larger == IF area > calibrated_area THEN area ELSE calibrated_area
             IN  IF RLeq(t, Rat(99, 100))
                 THEN [ret |-> Rat(Sentinel, 1), divisions |-> <<tdiv>>]
                 ELSE [ret |-> RMul(Rat(Abs(area - calibrated_area), larger), t),
                       divisions |-> <<tdiv, <<Abs(area - calibrated_area), larger>> >>]

\* the value acquisition_r returns
acquisition_r(rect, calibrated_area) == acquisition_r_run(rect, calibrated_area).ret

\* center_text printing the corner instead of the centre
center_text_corner(rect, label) == <<label, 10 * rect.x, 10 * rect.y>>

\* center_text: the label and the two centre coordinates as "%6.1f" prints
\* them, in tenths (x + width / 2 has at most one decimal for integer input)
center_text(rect, label) ==
    <<label, 10 * rect.x + 5 * rect.width, 10 * rect.y + 5 * rect.height>>

(* ------------------------------- state -------------------------------- *)

VARIABLES
    box_robot,            \* m_impl->box_robot
    box_object,           \* m_impl->box_object
    box_target,           \* m_impl->box_target
    m_robot_box_fresh,    \* the flag's storage byte, see IndeterminateBytes
    m_object_box_fresh,
    m_robot_loc_label,    \* nullptr, the address of a label, or dangling
    m_object_loc_label,
    label_text,           \* the text each label of the status box shows
    m_tracking_robot,
    m_tracking_object,
    m_acquire_walls,
    m_object_type,
    m_walls,              \* shared_ptr to the wall array: nullptr or its id
    m_path,               \* path2d: sequence of <<x, y>>
    m_procedure,          \* unique_ptr<Procedure>: nullptr or a heap cell
    m_object_procedure,   \* unique_ptr<ObjectProcedure>
    heap,                 \* live procedure instances: cell -> [kind, running]
    g_pm,                 \* the parameter manager's calibration values
    crashed,              \* the process died in the last call
    last,                 \* the last call: [op, arg]; "~CompetitionState"
                          \*   once the state is destroyed
    ret,                  \* what the last call returned
    setText_calls,        \* the setText calls the last call made, in order
    score_pc,             \* acquisition_r called on its own: position
    score_rect,           \*   its rectangle
    score_area,           \*   its calibrated area
    score_out             \*   its result

boxVars == <<box_robot, box_object, box_target, m_robot_box_fresh,
             m_object_box_fresh, m_robot_loc_label, m_object_loc_label,
             label_text>>
trackVars == <<m_tracking_robot, m_tracking_object, m_acquire_walls,
               m_object_type, m_walls>>
procVars == <<m_procedure, m_object_procedure, heap>>
callVars == <<last, ret, setText_calls>>
scoreVars == <<score_pc, score_rect, score_area, score_out>>
vars == <<boxVars, trackVars, m_path, procVars, g_pm, crashed, callVars, scoreVars>>

(* ------------------------------ inputs -------------------------------- *)

\* Inputs of the whole-program specification Spec: one of each, so that every
\* interleaving of every operation is explored.
Rects == {Rect2d(0, 0, 10, 10)}
Points == {<<1, 2>>}
Params == {[robot_calib_area |-> 100, object_calib_area |-> 400,
            area_acq_r_sigma |-> Rat(3, 4)]}

\* whether the parent's status box can be locked when the state is built
Locks == {TRUE}

\* the rectangles whose centres the labels of the status box show when the
\* status box cannot be locked
StaleRects == {ZeroRect}

\* classifications passed to set_object_type
ObjectTypes == {UNACQUIRED, 1}

\* wall arrays passed to acquire_walls
WallPtrs == {1}

\* Inputs of the box store specification SpecBox: a square, an offset square,
\* a larger square, a far-from-square rectangle and a zero-area one
BoxRects == {Rect2d(0, 0, 10, 10), Rect2d(1, 2, 10, 10), Rect2d(0, 0, 20, 20),
             Rect2d(0, 0, 20, 5), Rect2d(0, 0, 0, 5)}

\* calibration values of the parameter manager: robot_calib_area,
\* object_calib_area, area_acq_r_sigma
BoxParams == {[robot_calib_area |-> 100, object_calib_area |-> 400,
               area_acq_r_sigma |-> Rat(3, 4)],
              [robot_calib_area |-> 400, object_calib_area |-> 100,
               area_acq_r_sigma |-> Rat(1, 1)],
              [robot_calib_area |-> 100, object_calib_area |-> 100,
               area_acq_r_sigma |-> Rat(0, 1)],
              [robot_calib_area |-> 100, object_calib_area |-> 400,
               area_acq_r_sigma |-> Rat(2000, 1)]}

\* rectangles passed to acquire_target_box in SpecBox
BoxTargets == {Rect2d(1, 2, 10, 10)}

BoxLocks == BOOLEAN
BoxStaleRects == {Rect2d(1, 2, 10, 10)}

\* rectangles a caller stores through the reference get_*_box returned
BoxStores == {Rect2d(0, 0, 20, 5)}

\* Inputs of the motion specification SpecMotion
MotionPoints == {<<0, 0>>, <<1, 2>>}

\* Inputs of SpecScore: widths and heights, corners, calibrated areas
ScoreDims == {-10, -5, 0, 5, 10, 20}
ScoreCorners == {0, 1}
ScoreAreas == {100, 400}

\* heap cells
ProcIds == 1..MaxInst

(* ------------------------ external collaborators ---------------------- *)

\* a heap cell holding no instance
FreeCell == [live |-> FALSE, kind |-> "none", running |-> FALSE]

\* the cells holding an instance
LiveCells(h) == {p \in ProcIds : h[p].live}

\* Procedure::start / ObjectProcedure::start
Procedure_start(h, p) == [h EXCEPT ![p].running = TRUE]

\* Procedure::stop / ObjectProcedure::stop
Procedure_stop(h, p) == [h EXCEPT ![p].running = FALSE]

\* ~Procedure / ~ObjectProcedure: the instance is gone
Procedure_destroy(h, p) == [h EXCEPT ![p] = FreeCell]

\* the cell operator new hands out: the lowest free one
NewCell(h) ==
    CHOOSE p \in ProcIds \ LiveCells(h) : \A q \in ProcIds \ LiveCells(h) : p <= q

\* std::make_unique<T>(...): a newly constructed, not yet started instance
make_unique(h, kind) ==
    [h EXCEPT ![NewCell(h)] = [live |-> TRUE, kind |-> kind, running |-> FALSE]]

\* ~unique_ptr: the owned instance, if any, is deleted
unique_ptr_destroy(h, p) == IF p = nullptr THEN h ELSE Procedure_destroy(h, p)

\* an assignment that forgets the previously owned instance
unique_ptr_assign_leaks(h, old) == h

\* unique_ptr move assignment: the previously owned instance is deleted
unique_ptr_assign(h, old) == IF old = nullptr THEN h ELSE Procedure_destroy(h, old)

(* ------------------------------- Init --------------------------------- *)

\* the record of a call and of what it returned
Returns(op, arg, value, texts) ==
    /\ last' = [op |-> op, arg |-> arg]
    /\ ret' = value
    /\ setText_calls' = texts

ScoreIdle ==
    /\ score_pc = "idle"
    /\ score_rect = ZeroRect
    /\ score_area = 0
    /\ score_out = [ret |-> Rat(0, 1), divisions |-> <<>>]

\* the labels add_label creates, for the robot and for the object
RobotLabel == 1
ObjectLabel == 2

\* labels that exist whether or not the status box can be locked, such as
\* the two an earlier state created
StaleRobotLabel == 3
StaleObjectLabel == 4
OtherLabels == {StaleRobotLabel, StaleObjectLabel}

Labels == {RobotLabel, ObjectLabel} \cup OtherLabels

\* a pointer that is not null and is the address of no label
dangling == 5

\* what label_text holds for a label that was not created
NoLabel == <<"", 0, 0>>

\* the values a label pointer that was never assigned can have: null, the
\* address of no label, or the address of any label that exists
indeterminate_label == {nullptr, dangling} \cup OtherLabels

\* the texts of the labels once the constructor has run: the two add_label
\* creates show the centre of the zero rectangle and exist only if the status
\* box was locked; the other labels show what an earlier state left on them
label_texts(locked, rects) ==
    {[l \in Labels |->
         IF l = RobotLabel
         THEN (IF locked THEN center_text(ZeroRect, "Robot") ELSE NoLabel)
         ELSE IF l = ObjectLabel
         THEN (IF locked THEN center_text(ZeroRect, "Object") ELSE NoLabel)
         ELSE IF l = StaleRobotLabel
         THEN center_text(r, "Robot")
         ELSE center_text(o, "Object")] :
        r \in rects, o \in rects}

\* whether setText through the pointer ends the process: through null it does
\* (the assert, or the null dereference), through the address of a label it
\* does not, through any other pointer it may
setText_faults(ptr) ==
    IF ptr = nullptr THEN {TRUE} ELSE IF ptr \in Labels THEN {FALSE} ELSE BOOLEAN

\* QLabel::setText: the label the pointer addresses, if any, shows the text
setText(texts, ptr, text) ==
    IF ptr \in Labels THEN [texts EXCEPT ![ptr] = text] ELSE texts

\* CompetitionState::CompetitionState: the two freshness flags are not in
\* the initializer list and the two label pointers are assigned only if the
\* status box could be locked; what is not written starts indeterminate
Constructed(params, locks, stale) ==
    /\ box_robot = ZeroRect
    /\ box_object = ZeroRect
    /\ box_target = ZeroRect
    /\ m_robot_box_fresh \in IndeterminateBytes
    /\ m_object_box_fresh \in IndeterminateBytes
    /\ \E locked \in locks :
          IF locked
          THEN /\ label_text \in label_texts(TRUE, stale)
               /\ m_robot_loc_label = RobotLabel
               /\ m_object_loc_label = ObjectLabel
          ELSE /\ label_text \in label_texts(FALSE, stale)
               /\ m_robot_loc_label \in indeterminate_label
               /\ m_object_loc_label \in indeterminate_label
    /\ m_tracking_robot = FALSE
    /\ m_tracking_object = FALSE
    /\ m_acquire_walls = FALSE
    /\ m_object_type = UNACQUIRED
    /\ m_walls = nullptr
    /\ m_path = <<>>
    /\ m_procedure = nullptr
    /\ m_object_procedure = nullptr
    /\ heap = [p \in ProcIds |-> FreeCell]
    /\ g_pm \in params
    /\ crashed = FALSE
    /\ last = [op |-> "CompetitionState", arg |-> "-"]
    /\ ret = "void"
    /\ setText_calls = <<>>

\* the state exists and the process runs: a member function can be called
Alive == ~crashed /\ last.op # "~CompetitionState"

Init == Constructed(Params, Locks, StaleRects) /\ ScoreIdle

(* ----------------------------- box store ------------------------------ *)

acquire_robot_box(robot_box) ==
    /\ Alive
    /\ \E fault \in setText_faults(m_robot_loc_label) :
          IF fault
          THEN \* assert(m_robot_loc_label != nullptr), or setText through a
               \* pointer that is not the address of a label
               /\ crashed' = TRUE
               /\ Returns("acquire_robot_box", robot_box, "void", <<>>)
               /\ UNCHANGED boxVars
          ELSE /\ label_text' = setText(label_text, m_robot_loc_label, center_text(robot_box, "Robot"))
               /\ box_robot' = robot_box
               /\ m_robot_box_fresh' = byte_of(TRUE)
               /\ Returns("acquire_robot_box", robot_box, "void",
                          << <<"m_robot_loc_label", center_text(robot_box, "Robot")>> >>)
               /\ UNCHANGED <<box_object, box_target, m_object_box_fresh,
                              m_robot_loc_label, m_object_loc_label, crashed>>
    /\ UNCHANGED <<trackVars, m_path, procVars, g_pm, scoreVars>>

\* acquire_object_box setting the robot's freshness flag as well
acquire_object_box_marks_robot(object_box) ==
    /\ Alive
    /\ \E fault \in setText_faults(m_object_loc_label) :
          IF fault
          THEN \* assert(m_object_loc_label != nullptr), or setText through a
               \* pointer that is not the address of a label
               /\ crashed' = TRUE
               /\ Returns("acquire_object_box", object_box, "void", <<>>)
               /\ UNCHANGED boxVars
          ELSE /\ label_text' = setText(label_text, m_object_loc_label, center_text(object_box, "Object"))
               /\ box_object' = object_box
               /\ m_object_box_fresh' = byte_of(TRUE)
               /\ m_robot_box_fresh' = byte_of(TRUE)
               /\ Returns("acquire_object_box", object_box, "void",
                          << <<"m_object_loc_label", center_text(object_box, "Object")>> >>)
               /\ UNCHANGED <<box_robot, box_target,
                              m_robot_loc_label, m_object_loc_label, crashed>>
    /\ UNCHANGED <<trackVars, m_path, procVars, g_pm, scoreVars>>

acquire_object_box(object_box) ==
    /\ Alive
    /\ \E fault \in setText_faults(m_object_loc_label) :
          IF fault
          THEN \* assert(m_object_loc_label != nullptr), or setText through a
               \* pointer that is not the address of a label
               /\ crashed' = TRUE
               /\ Returns("acquire_object_box", object_box, "void", <<>>)
               /\ UNCHANGED boxVars
          ELSE /\ label_text' = setText(label_text, m_object_loc_label, center_text(object_box, "Object"))
               /\ box_object' = object_box
               /\ m_object_box_fresh' = byte_of(TRUE)
               /\ Returns("acquire_object_box", object_box, "void",
                          << <<"m_object_loc_label", center_text(object_box, "Object")>> >>)
               /\ UNCHANGED <<box_robot, box_target, m_robot_box_fresh,
                              m_robot_loc_label, m_object_loc_label, crashed>>
    /\ UNCHANGED <<trackVars, m_path, procVars, g_pm, scoreVars>>

acquire_target_box(target_box) ==
    /\ Alive
    /\ box_target' = target_box
    /\ Returns("acquire_target_box", target_box, "void", <<>>)
    /\ UNCHANGED <<box_robot, box_object, m_robot_box_fresh, m_object_box_fresh,
                   m_robot_loc_label, m_object_loc_label, label_text>>
    /\ UNCHANGED <<trackVars, m_path, procVars, g_pm, crashed, scoreVars>>

\* get_robot_box clearing the flag whatever consume is
get_robot_box_always_consumes(consume) ==
    /\ Alive
    /\ m_robot_box_fresh' = byte_of(FALSE)
    /\ Returns("get_robot_box", consume, "m_impl->box_robot", <<>>)
    /\ UNCHANGED <<box_robot, box_object, box_target, m_object_box_fresh,
                   m_robot_loc_label, m_object_loc_label, label_text>>
    /\ UNCHANGED <<trackVars, m_path, procVars, g_pm, crashed, scoreVars>>

\* get_robot_box: the value returned is a reference to the stored rectangle
get_robot_box(consume) ==
    /\ Alive
    /\ m_robot_box_fresh' \in fresh_and_not_consume(m_robot_box_fresh, consume)
    /\ Returns("get_robot_box", consume, "m_impl->box_robot", <<>>)
    /\ UNCHANGED <<box_robot, box_object, box_target, m_object_box_fresh,
                   m_robot_loc_label, m_object_loc_label, label_text>>
    /\ UNCHANGED <<trackVars, m_path, procVars, g_pm, crashed, scoreVars>>

\* get_object_box marking the box fresh when it does not consume
get_object_box_refreshes(consume) ==
    /\ Alive
    /\ m_object_box_fresh' = byte_of(~consume)
    /\ Returns("get_object_box", consume, "m_impl->box_object", <<>>)
    /\ UNCHANGED <<box_robot, box_object, box_target, m_robot_box_fresh,
                   m_robot_loc_label, m_object_loc_label, label_text>>
    /\ UNCHANGED <<trackVars, m_path, procVars, g_pm, crashed, scoreVars>>

get_object_box(consume) ==
    /\ Alive
    /\ m_object_box_fresh' \in fresh_and_not_consume(m_object_box_fresh, consume)
    /\ Returns("get_object_box", consume, "m_impl->box_object", <<>>)
    /\ UNCHANGED <<box_robot, box_object, box_target, m_robot_box_fresh,
                   m_robot_loc_label, m_object_loc_label, label_text>>
    /\ UNCHANGED <<trackVars, m_path, procVars, g_pm, crashed, scoreVars>>

\* The caller assigns through a reference that get_robot_box returned at some
\* earlier time: the stored rectangle changes, nothing else. The caller holds
\* such a reference only after a call of get_robot_box; in every state a call
\* has led to the reference may be held, since a get_robot_box(false) right
\* after the construction can leave everything but the call record as it was.
store_robot_box(rect) ==
    /\ Alive
    /\ last.op # "CompetitionState"
    /\ box_robot' = rect
    /\ UNCHANGED <<box_object, box_target, m_robot_box_fresh, m_object_box_fresh,
                   m_robot_loc_label, m_object_loc_label, label_text>>
    /\ UNCHANGED <<trackVars, m_path, procVars, g_pm, crashed, callVars, scoreVars>>

store_object_box(rect) ==
    /\ Alive
    /\ last.op # "CompetitionState"
    /\ box_object' = rect
    /\ UNCHANGED <<box_robot, box_target, m_robot_box_fresh, m_object_box_fresh,
                   m_robot_loc_label, m_object_loc_label, label_text>>
    /\ UNCHANGED <<trackVars, m_path, procVars, g_pm, crashed, callVars, scoreVars>>

\* get_target_box changes nothing, so its reference may be held in every
\* state a call has led to
store_target_box(rect) ==
    /\ Alive
    /\ last.op # "CompetitionState"
    /\ box_target' = rect
    /\ UNCHANGED <<box_robot, box_object, m_robot_box_fresh, m_object_box_fresh,
                   m_robot_loc_label, m_object_loc_label, label_text>>
    /\ UNCHANGED <<trackVars, m_path, procVars, g_pm, crashed, callVars, scoreVars>>

\* a const accessor: nothing but the call record changes
Reads(op, value) ==
    /\ Alive
    /\ Returns(op, "-", value, <<>>)
    /\ UNCHANGED <<boxVars, trackVars, m_path, procVars, g_pm, crashed, scoreVars>>

\* get_target_box: a reference as well
get_target_box == Reads("get_target_box", "m_impl->box_target")

is_robot_box_fresh ==
    \E r \in bool_read(m_robot_box_fresh) : Reads("is_robot_box_fresh", r)

is_object_box_fresh ==
    \E r \in bool_read(m_object_box_fresh) : Reads("is_object_box_fresh", r)

\* is_robot_box_valid scoring against the object's calibrated area
is_robot_box_valid_object_area ==
    Reads("is_robot_box_valid",
          RLess(acquisition_r(box_robot, g_pm.object_calib_area), g_pm.area_acq_r_sigma))

is_robot_box_valid ==
    Reads("is_robot_box_valid",
          RLess(acquisition_r(box_robot, g_pm.robot_calib_area), g_pm.area_acq_r_sigma))

\* is_object_box_valid comparing with <= instead of <
is_object_box_valid_leq ==
    Reads("is_object_box_valid",
          RLeq(acquisition_r(box_object, g_pm.object_calib_area), g_pm.area_acq_r_sigma))

is_object_box_valid ==
    Reads("is_object_box_valid",
          RLess(acquisition_r(box_object, g_pm.object_calib_area), g_pm.area_acq_r_sigma))

(* --------------------------- tracking flags --------------------------- *)

acquire_walls(walls) ==
    /\ Alive
    /\ m_walls' = walls
    /\ Returns("acquire_walls", walls, "void", <<>>)
    /\ UNCHANGED <<m_tracking_robot, m_tracking_object, m_acquire_walls, m_object_type>>
    /\ UNCHANGED <<boxVars, m_path, procVars, g_pm, crashed, scoreVars>>

\* is_tracking_robot returning the robot flag
is_tracking_robot_own_flag == Reads("is_tracking_robot", m_tracking_robot)

is_tracking_robot == Reads("is_tracking_robot", m_tracking_object)

is_tracking_object == Reads("is_tracking_object", m_tracking_object)

object_type == Reads("object_type", m_object_type)

set_tracking_robot(tracking_robot) ==
    /\ Alive
    /\ m_tracking_robot' = tracking_robot
    /\ Returns("set_tracking_robot", tracking_robot, "void", <<>>)
    /\ UNCHANGED <<m_tracking_object, m_acquire_walls, m_object_type, m_walls>>
    /\ UNCHANGED <<boxVars, m_path, procVars, g_pm, crashed, scoreVars>>

set_tracking_object(tracking_object) ==
    /\ Alive
    /\ m_tracking_object' = tracking_object
    /\ Returns("set_tracking_object", tracking_object, "void", <<>>)
    /\ UNCHANGED <<m_tracking_robot, m_acquire_walls, m_object_type, m_walls>>
    /\ UNCHANGED <<boxVars, m_path, procVars, g_pm, crashed, scoreVars>>

set_object_type(type) ==
    /\ Alive
    /\ m_object_type' = type
    /\ Returns("set_object_type", type, "void", <<>>)
    /\ UNCHANGED <<m_tracking_robot, m_tracking_object, m_acquire_walls, m_walls>>
    /\ UNCHANGED <<boxVars, m_path, procVars, g_pm, crashed, scoreVars>>

(* -------------------------------- path -------------------------------- *)

clear_path ==
    /\ Alive
    /\ m_path' = <<>>
    /\ Returns("clear_path", "-", "void", <<>>)
    /\ UNCHANGED <<boxVars, trackVars, procVars, g_pm, crashed, scoreVars>>

\* append_path putting the point at the front
append_path_front(x, y) ==
    /\ Alive
    /\ m_path' = <<<<x, y>>>> \o m_path
    /\ Returns("append_path", <<x, y>>, "void", <<>>)
    /\ UNCHANGED <<boxVars, trackVars, procVars, g_pm, crashed, scoreVars>>

append_path(x, y) ==
    /\ Alive
    /\ m_path' = Append(m_path, <<x, y>>)
    /\ Returns("append_path", <<x, y>>, "void", <<>>)
    /\ UNCHANGED <<boxVars, trackVars, procVars, g_pm, crashed, scoreVars>>

get_path == Reads("get_path", m_path)

(* ------------------------- procedure controller ----------------------- *)

\* begin_traversal that keeps an instance it already owns and starts nothing
begin_traversal_keeps_old ==
    /\ Alive
    /\ ProcIds \ LiveCells(heap) # {}
    /\ IF m_procedure = nullptr
       THEN LET p == NewCell(heap)
            IN  /\ m_procedure' = p
                /\ heap' = Procedure_start(make_unique(heap, "Procedure"), p)
       ELSE UNCHANGED <<m_procedure, heap>>
    /\ Returns("begin_traversal", "-", "void", <<>>)
    /\ UNCHANGED <<m_object_procedure, boxVars, trackVars, m_path, g_pm, crashed, scoreVars>>

\* begin_traversal that first stops a running object move
begin_traversal_stops_object_move ==
    /\ Alive
    /\ ProcIds \ LiveCells(heap) # {}
    /\ LET p == NewCell(heap)
           constructed == make_unique(heap, "Procedure")
           assigned == unique_ptr_assign(constructed, m_procedure)
           exclusive == IF m_object_procedure = nullptr
                        THEN assigned
                        ELSE Procedure_stop(assigned, m_object_procedure)
       IN  /\ m_procedure' = p
           /\ heap' = Procedure_start(exclusive, p)
    /\ Returns("begin_traversal", "-", "void", <<>>)
    /\ UNCHANGED <<m_object_procedure, boxVars, trackVars, m_path, g_pm, crashed, scoreVars>>

begin_traversal ==
    /\ Alive
    /\ ProcIds \ LiveCells(heap) # {}
    /\ LET p == NewCell(heap)
           constructed == make_unique(heap, "Procedure")
           assigned == unique_ptr_assign(constructed, m_procedure)
       IN  /\ m_procedure' = p
           /\ heap' = Procedure_start(assigned, p)
    /\ Returns("begin_traversal", "-", "void", <<>>)
    /\ UNCHANGED <<m_object_procedure, boxVars, trackVars, m_path, g_pm, crashed, scoreVars>>

\* halt_traversal that also releases the instance
halt_traversal_resets ==
    /\ Alive
    /\ IF m_procedure = nullptr
       THEN /\ crashed' \in BOOLEAN
            /\ UNCHANGED <<heap, m_procedure>>
       ELSE /\ heap' = Procedure_destroy(Procedure_stop(heap, m_procedure), m_procedure)
            /\ m_procedure' = nullptr
            /\ UNCHANGED crashed
    /\ Returns("halt_traversal", "-", "void", <<>>)
    /\ UNCHANGED <<m_object_procedure, boxVars, trackVars, m_path, g_pm, scoreVars>>

halt_traversal ==
    /\ Alive
    /\ IF m_procedure = nullptr
       THEN \* stop() through a null unique_ptr is undefined: the call faults,
            \* or returns if stop() happens to touch nothing
            /\ crashed' \in BOOLEAN
            /\ UNCHANGED heap
       ELSE /\ heap' = Procedure_stop(heap, m_procedure)
            /\ UNCHANGED crashed
    /\ Returns("halt_traversal", "-", "void", <<>>)
    /\ UNCHANGED <<m_procedure, m_object_procedure, boxVars, trackVars, m_path, g_pm, scoreVars>>

\* begin_object_move that leaves the previous instance alive and running
begin_object_move_leaks ==
    /\ Alive
    /\ ProcIds \ LiveCells(heap) # {}
    /\ LET p == NewCell(heap)
       IN  /\ m_object_procedure' = p
           /\ heap' = Procedure_start(make_unique(heap, "ObjectProcedure"), p)
    /\ Returns("begin_object_move", "-", "void", <<>>)
    /\ UNCHANGED <<m_procedure, boxVars, trackVars, m_path, g_pm, crashed, scoreVars>>

begin_object_move ==
    /\ Alive
    /\ ProcIds \ LiveCells(heap) # {}
    /\ LET p == NewCell(heap)
           constructed == make_unique(heap, "ObjectProcedure")
           assigned == unique_ptr_assign(constructed, m_object_procedure)
       IN  /\ m_object_procedure' = p
           /\ heap' = Procedure_start(assigned, p)
    /\ Returns("begin_object_move", "-", "void", <<>>)
    /\ UNCHANGED <<m_procedure, boxVars, trackVars, m_path, g_pm, crashed, scoreVars>>

\* halt_object_move that also releases the instance
halt_object_move_resets ==
    /\ Alive
    /\ IF m_object_procedure = nullptr
       THEN /\ crashed' \in BOOLEAN
            /\ UNCHANGED <<heap, m_object_procedure>>
       ELSE /\ heap' = Procedure_destroy(Procedure_stop(heap, m_object_procedure),
                                         m_object_procedure)
            /\ m_object_procedure' = nullptr
            /\ UNCHANGED crashed
    /\ Returns("halt_object_move", "-", "void", <<>>)
    /\ UNCHANGED <<m_procedure, boxVars, trackVars, m_path, g_pm, scoreVars>>

halt_object_move ==
    /\ Alive
    /\ IF m_object_procedure = nullptr
       THEN /\ crashed' \in BOOLEAN
            /\ UNCHANGED heap
       ELSE /\ heap' = Procedure_stop(heap, m_object_procedure)
            /\ UNCHANGED crashed
    /\ Returns("halt_object_move", "-", "void", <<>>)
    /\ UNCHANGED <<m_procedure, m_object_procedure, boxVars, trackVars, m_path, g_pm, scoreVars>>

\* ~CompetitionState: the members are destroyed, and with them the instance
\* each slot owns; the other members' storage is released and not read again
CompetitionState_destructor ==
    /\ Alive
    /\ heap' = unique_ptr_destroy(unique_ptr_destroy(heap, m_object_procedure),
                                  m_procedure)
    /\ m_procedure' = nullptr
    /\ m_object_procedure' = nullptr
    /\ Returns("~CompetitionState", "-", "void", <<>>)
    /\ UNCHANGED <<boxVars, trackVars, m_path, g_pm, crashed, scoreVars>>

(* --------------------- acquisition_r on its own ----------------------- *)

acquisition_r_call ==
    /\ score_pc = "called"
    /\ score_out' = acquisition_r_run(score_rect, score_area)
    /\ score_pc' = "returned"
    /\ UNCHANGED <<score_rect, score_area>>
    /\ UNCHANGED <<boxVars, trackVars, m_path, procVars, g_pm, crashed, callVars>>

(* --------------------------- specifications --------------------------- *)

BoxNext(rects, targets) ==
    \/ \E r \in rects : acquire_robot_box(r)
    \/ \E r \in rects : acquire_object_box(r)
    \/ \E r \in targets : acquire_target_box(r)
    \/ \E c \in BOOLEAN : get_robot_box(c)
    \/ \E c \in BOOLEAN : get_object_box(c)
    \/ get_target_box
    \/ is_robot_box_fresh
    \/ is_object_box_fresh
    \/ is_robot_box_valid
    \/ is_object_box_valid

TrackNext ==
    \/ \E w \in WallPtrs : acquire_walls(w)
    \/ is_tracking_robot
    \/ is_tracking_object
    \/ object_type
    \/ \E b \in BOOLEAN : set_tracking_robot(b)
    \/ \E b \in BOOLEAN : set_tracking_object(b)
    \/ \E t \in ObjectTypes : set_object_type(t)

MotionNext(points, maxlen) ==
    \/ clear_path
    \/ \E pt \in points : Len(m_path) < maxlen /\ append_path(pt[1], pt[2])
    \/ get_path
    \/ begin_traversal
    \/ halt_traversal
    \/ begin_object_move
    \/ halt_object_move
    \/ CompetitionState_destructor

\* what a caller does with the references get_*_box returned
StoreNext(stores) ==
    \/ \E r \in stores : store_robot_box(r)
    \/ \E r \in stores : store_object_box(r)
    \/ \E r \in stores : store_target_box(r)

\* the whole program: every member function and every store through a
\* returned reference, in every order
Next == BoxNext(Rects, Rects) \/ StoreNext(Rects) \/ TrackNext \/ MotionNext(Points, MaxPath)

Spec == Init /\ [][Next]_vars

\* the box store, over more rectangles, with and without the status box
InitBox == Constructed(Params, BoxLocks, BoxStaleRects) /\ ScoreIdle
NextBox == BoxNext(BoxRects, BoxTargets) \/ StoreNext(BoxStores)
SpecBox == InitBox /\ [][NextBox]_vars

\* the box store, over more rectangles and calibrations
InitValid == Constructed(BoxParams, Locks, StaleRects) /\ ScoreIdle
NextValid == BoxNext(BoxRects, BoxTargets) \/ StoreNext(BoxStores)
SpecValid == InitValid /\ [][NextValid]_vars

\* the tracking flags, the object type and the wall array
NextTrack == TrackNext
SpecTrack == Init /\ [][NextTrack]_vars

\* the path and the two procedure slots, over longer paths
NextMotion == MotionNext(MotionPoints, MaxMotionPath)
SpecMotion == Init /\ [][NextMotion]_vars

\* acquisition_r applied to every rectangle and calibrated area of the inputs
InitScore ==
    /\ Constructed(Params, Locks, StaleRects)
    /\ score_pc = "called"
    /\ score_rect \in {Rect2d(x, y, w, h) : x \in ScoreCorners, y \in ScoreCorners,
                                            w \in ScoreDims, h \in ScoreDims}
    /\ score_area \in ScoreAreas
    /\ score_out = [ret |-> Rat(0, 1), divisions |-> <<>>]
NextScore == acquisition_r_call
SpecScore == InitScore /\ [][NextScore]_vars

(* ------------------------------- claims ------------------------------- *)

\* the procedure a slot owns is running
TraversalRunning ==
    m_procedure # nullptr /\ heap[m_procedure].live /\ heap[m_procedure].running
ObjectMoveRunning ==
    /\ m_object_procedure # nullptr
    /\ heap[m_object_procedure].live
    /\ heap[m_object_procedure].running

\* the live instances of one kind
Instances(kind) == {p \in LiveCells(heap) : heap[p].kind = kind}

\* the step is a store through a reference, not a call of a member function
StoreStep == StoreNext(BoxStores)

\* what is_robot_box_fresh() and is_object_box_fresh() can return
RobotFresh == bool_read(m_robot_box_fresh)
ObjectFresh == bool_read(m_object_box_fresh)

\* C1: a call of acquire_E_box that returns leaves is_E_box_fresh() true, a
\* get_E_box(true) leaves it false, a get_E_box(false) leaves it as it was:
\* true stays true, false stays false, and with a flag that was never written
\* nothing can be read afterwards that could not be read before; and
\* is_E_box_fresh() reports the flag and leaves it alone; for the robot and
\* for the object.
C1_FreshnessProtocol ==
    [][ /\ (last'.op = "acquire_robot_box" /\ ~crashed' => RobotFresh' = {TRUE})
        /\ (last'.op = "get_robot_box" /\ last'.arg => RobotFresh' = {FALSE})
        /\ (last'.op = "get_robot_box" /\ ~last'.arg
               => /\ RobotFresh' \subseteq RobotFresh
                  /\ (RobotFresh = {TRUE} => RobotFresh' = {TRUE})
                  /\ (RobotFresh = {FALSE} => RobotFresh' = {FALSE}))
        /\ (last'.op = "is_robot_box_fresh"
               => ret' \in RobotFresh /\ m_robot_box_fresh' = m_robot_box_fresh)
        /\ (last'.op = "acquire_object_box" /\ ~crashed' => ObjectFresh' = {TRUE})
        /\ (last'.op = "get_object_box" /\ last'.arg => ObjectFresh' = {FALSE})
        /\ (last'.op = "get_object_box" /\ ~last'.arg
               => /\ ObjectFresh' \subseteq ObjectFresh
                  /\ (ObjectFresh = {TRUE} => ObjectFresh' = {TRUE})
                  /\ (ObjectFresh = {FALSE} => ObjectFresh' = {FALSE}))
        /\ (last'.op = "is_object_box_fresh"
               => ret' \in ObjectFresh /\ m_object_box_fresh' = m_object_box_fresh)
      ]_vars

\* C1 witness: the robot box was acquired with the display attached and
\* is_robot_box_fresh() has just reported it fresh
C1_Witness ==
    /\ last.op = "is_robot_box_fresh" /\ ret = TRUE
    /\ RobotFresh = {TRUE}
    /\ box_robot # ZeroRect
    /\ m_robot_loc_label = RobotLabel
    /\ label_text[RobotLabel] = center_text(box_robot, "Robot")

\* the calls that only read
ReadOps == {"get_robot_box", "get_object_box", "get_target_box",
            "is_robot_box_fresh", "is_object_box_fresh",
            "is_robot_box_valid", "is_object_box_valid", "get_path"}

\* C2: a freshness flag that is true stops being true only in a
\* get_<entity>_box(true) step, one that is false stops being false only in
\* an acquire_<entity>_box step, and after a read nobody can see a flag true
\* who could not see it true before.
C2_FreshnessChanges ==
    [][ /\ (RobotFresh = {TRUE} /\ RobotFresh' # {TRUE}
               => last'.op = "get_robot_box" /\ last'.arg)
        /\ (RobotFresh = {FALSE} /\ RobotFresh' # {FALSE}
               => last'.op = "acquire_robot_box")
        /\ (ObjectFresh = {TRUE} /\ ObjectFresh' # {TRUE}
               => last'.op = "get_object_box" /\ last'.arg)
        /\ (ObjectFresh = {FALSE} /\ ObjectFresh' # {FALSE}
               => last'.op = "acquire_object_box")
        /\ (last'.op \in ReadOps
               => /\ (TRUE \in RobotFresh' => TRUE \in RobotFresh)
                  /\ (TRUE \in ObjectFresh' => TRUE \in ObjectFresh))
      ]_vars

\* C2 witness: the object box was acquired and then consumed, while the robot
\* box, acquired as well, is still fresh
C2_Witness ==
    /\ last.op = "get_object_box" /\ last.arg
    /\ ObjectFresh = {FALSE} /\ box_object # ZeroRect
    /\ RobotFresh = {TRUE} /\ box_robot # ZeroRect
    /\ m_object_loc_label = ObjectLabel
    /\ label_text[ObjectLabel] = center_text(box_object, "Object")

\* C3: begin is accepted in every state the core can be in while it exists,
\* also after a halt, and leaves its slot RUNNING; halt leaves the slot's
\* procedure stopped.
C3_BeginAfterHalt ==
    /\ (Alive => ENABLED begin_traversal /\ ENABLED begin_object_move)
    /\ (last.op = "begin_traversal" => ~crashed /\ TraversalRunning)
    /\ (last.op = "begin_object_move" => ~crashed /\ ObjectMoveRunning)
    /\ (last.op = "halt_traversal" /\ ~crashed => ~TraversalRunning)
    /\ (last.op = "halt_object_move" /\ ~crashed => ~ObjectMoveRunning)

\* C3 witness: a traversal was begun again over an earlier instance (the new
\* instance sits in the second cell, the first one is gone) and is running
C3_Witness ==
    /\ last.op = "begin_traversal"
    /\ m_object_procedure = nullptr
    /\ m_procedure = 2 /\ ~heap[1].live
    /\ TraversalRunning

\* C4: the core owns at most one live instance of each kind, and every live
\* instance is the one its slot points to.
C4_OneInstancePerKind ==
    /\ Cardinality(Instances("Procedure")) <= 1
    /\ Cardinality(Instances("ObjectProcedure")) <= 1
    /\ Instances("Procedure") = {m_procedure} \ {nullptr}
    /\ Instances("ObjectProcedure") = {m_object_procedure} \ {nullptr}

\* C4 witness: an object move was begun while a traversal instance and an
\* earlier object-move instance were alive (so the new one took the third
\* cell), and two instances remain
C4_Witness ==
    /\ last.op = "begin_object_move"
    /\ m_object_procedure = 3
    /\ m_procedure # nullptr
    /\ Cardinality(LiveCells(heap)) = 2

\* C5 as claimed: a traversal and an object move are never both running.
C5_MutuallyExclusive == ~(TraversalRunning /\ ObjectMoveRunning)

\* C5 as amended: exclusion holds within a kind only; at most one procedure
\* of each kind is running, the one its slot owns.
C5_OneRunningPerKind ==
    /\ \A p \in Instances("Procedure") : heap[p].running => p = m_procedure
    /\ \A p \in Instances("ObjectProcedure") : heap[p].running => p = m_object_procedure
    /\ \A p \in ProcIds : ~heap[p].live => ~heap[p].running

\* C5 witness: both kinds running at once, after a repeated begin_object_move
C5_Witness ==
    /\ TraversalRunning /\ ObjectMoveRunning
    /\ last.op = "begin_object_move"
    /\ m_procedure = 1 /\ m_object_procedure = 3

\* C6 as claimed: a halt with no active procedure of its kind (never begun, or
\* already halted) fails, and a halt succeeds only on an active one.
C6_HaltFailsWhenInactive ==
    [][ /\ (last'.op = "halt_traversal" /\ ~TraversalRunning => crashed')
        /\ (last'.op = "halt_object_move" /\ ~ObjectMoveRunning => crashed')
      ]_vars

\* C6 as amended: a halt can fail only on a slot that never held a procedure
\* (null pointer); on a slot that holds one, running or already halted, it does
\* not fail, keeps the instance and leaves it stopped; a slot once filled is
\* not empty again as long as the state exists.
C6_HaltFailsOnlyOnNull ==
    [][ /\ (last'.op = "halt_traversal" /\ m_procedure # nullptr
               => /\ ~crashed'
                  /\ m_procedure' = m_procedure
                  /\ heap'[m_procedure].live /\ ~heap'[m_procedure].running)
        /\ (last'.op = "halt_traversal" /\ crashed' => m_procedure = nullptr)
        /\ (m_procedure # nullptr /\ last'.op # "~CompetitionState"
               => m_procedure' # nullptr)
        /\ (last'.op = "halt_object_move" /\ m_object_procedure # nullptr
               => /\ ~crashed'
                  /\ m_object_procedure' = m_object_procedure
                  /\ heap'[m_object_procedure].live
                  /\ ~heap'[m_object_procedure].running)
        /\ (last'.op = "halt_object_move" /\ crashed' => m_object_procedure = nullptr)
        /\ (m_object_procedure # nullptr /\ last'.op # "~CompetitionState"
               => m_object_procedure' # nullptr)
      ]_vars

\* C6 witness: a halt returned on a slot that holds a stopped instance
C6_Witness ==
    /\ last.op = "halt_traversal" /\ ~crashed
    /\ m_procedure # nullptr
    /\ heap[m_procedure].live /\ ~heap[m_procedure].running

\* C7: clear_path empties the path, append_path(x, y) adds <<x, y>> at the end
\* and keeps every earlier element in place, no other operation changes the
\* path, and get_path returns it.
C7_PathAppendOnly ==
    [][ /\ (last'.op = "clear_path" => m_path' = <<>>)
        /\ (last'.op = "append_path"
               => /\ Len(m_path') = Len(m_path) + 1
                  /\ m_path'[Len(m_path')] = last'.arg
                  /\ \A i \in 1..Len(m_path) : m_path'[i] = m_path[i])
        /\ (last'.op \notin {"clear_path", "append_path"} => m_path' = m_path)
        /\ (last'.op = "get_path" => ret' = m_path)
      ]_vars

\* C7 witness: two different points appended after a clear, read back in call
\* order
C7_Witness ==
    /\ last.op = "get_path"
    /\ ret = <<<<1, 2>>, <<0, 0>>>>
    /\ m_path = ret

\* C8: is_robot_box_valid() is true iff the score of the stored robot rectangle
\* against robot_calib_area is strictly below area_acq_r_sigma, and
\* is_object_box_valid() likewise with the object rectangle and
\* object_calib_area.
C8_ValidIffScoreBelowSigma ==
    [][ /\ (last'.op = "is_robot_box_valid" /\ ~StoreStep
               => LET score == acquisition_r(box_robot, g_pm.robot_calib_area)
                  IN  ret' = (score.num * g_pm.area_acq_r_sigma.den
                                 < g_pm.area_acq_r_sigma.num * score.den))
        /\ (last'.op = "is_object_box_valid" /\ ~StoreStep
               => LET score == acquisition_r(box_object, g_pm.object_calib_area)
                  IN  ret' = (score.num * g_pm.area_acq_r_sigma.den
                                 < g_pm.area_acq_r_sigma.num * score.den))
      ]_vars

\* C8 witness: the same acquired rectangle in both slots, valid as the robot
\* box, while its score against the object's area equals sigma and so is not
\* below it
C8_Witness ==
    /\ last.op = "is_robot_box_valid" /\ ret
    /\ box_robot # ZeroRect /\ box_object = box_robot
    /\ g_pm.robot_calib_area # g_pm.object_calib_area
    /\ acquisition_r(box_object, g_pm.object_calib_area) = g_pm.area_acq_r_sigma

\* C9: for a rectangle with width * height = 0, acquisition_r returns exactly
\* 1000 and executes no division.
C9_ZeroAreaSentinel ==
    score_pc = "returned" /\ score_rect.width * score_rect.height = 0
        => /\ score_out.ret = [num |-> 1000, den |-> 1]
           /\ score_out.divisions = <<>>

\* C9 witness: the score of a rectangle of width 0 and non-zero height
C9_Witness ==
    /\ score_pc = "returned"
    /\ score_rect.width = 0 /\ score_rect.height = 5
    /\ score_out.ret = [num |-> 1000, den |-> 1]

\* C10 as claimed: the rectangle {0, 0, 20, 5} scored against a calibrated
\* area of 100 gets the sentinel 1000.
C10_FarFromSquareSentinel ==
    score_pc = "returned" /\ score_rect = Rect2d(0, 0, 20, 5) /\ score_area = 100
        => score_out.ret = [num |-> 1000, den |-> 1]

\* C11: a square of side s > 0 scored against the calibrated area s * s has
\* the score 0, and the entity's validity query is then true exactly when
\* area_acq_r_sigma > 0.
C11_ExactSquareScoresZero ==
    [][ /\ ((/\ last'.op = "is_robot_box_valid" /\ ~StoreStep
             /\ box_robot.width > 0 /\ box_robot.height = box_robot.width
             /\ g_pm.robot_calib_area = box_robot.width * box_robot.width)
               => /\ acquisition_r(box_robot, g_pm.robot_calib_area) = [num |-> 0, den |-> 1]
                  /\ ret' = (g_pm.area_acq_r_sigma.num > 0))
        /\ ((/\ last'.op = "is_object_box_valid" /\ ~StoreStep
             /\ box_object.width > 0 /\ box_object.height = box_object.width
             /\ g_pm.object_calib_area = box_object.width * box_object.width)
               => /\ acquisition_r(box_object, g_pm.object_calib_area) = [num |-> 0, den |-> 1]
                  /\ ret' = (g_pm.area_acq_r_sigma.num > 0))
      ]_vars

\* C11 witness: a 10 x 10 object box against the calibrated area 100 with
\* sigma 0, reported not valid
C11_Witness ==
    /\ last.op = "is_object_box_valid" /\ ~ret
    /\ box_object = Rect2d(0, 0, 10, 10)
    /\ g_pm.object_calib_area = 100
    /\ g_pm.area_acq_r_sigma = [num |-> 0, den |-> 1]

\* C12: the score of {x, y, w, h} equals the score of {x, y, h, w} and the
\* score of {0, 0, w, h}, for every calibrated area.
C12_ScoreSymmetric ==
    score_pc = "returned"
        => /\ score_out.ret
                = acquisition_r(Rect2d(score_rect.x, score_rect.y,
                                       score_rect.height, score_rect.width), score_area)
           /\ score_out.ret
                = acquisition_r(Rect2d(0, 0, score_rect.width, score_rect.height),
                                score_area)

\* C12 witness: the score 3 of the 20 x 5 rectangle at (1, 1) against the area
\* 400, which its transpose shares
C12_Witness ==
    /\ score_pc = "returned"
    /\ score_rect = Rect2d(1, 1, 20, 5) /\ score_area = 400
    /\ score_out.ret = [num |-> 3, den |-> 1]
    /\ acquisition_r(Rect2d(1, 1, 5, 20), 400) = [num |-> 3, den |-> 1]

\* C13 as claimed: with a stored rectangle of zero area the validity query is
\* false whatever area_acq_r_sigma is.
C13_ZeroAreaNeverValid ==
    [][ /\ ((/\ last'.op = "is_robot_box_valid" /\ ~StoreStep
             /\ box_robot.width * box_robot.height = 0)
               => ~ret')
        /\ ((/\ last'.op = "is_object_box_valid" /\ ~StoreStep
             /\ box_object.width * box_object.height = 0)
               => ~ret')
      ]_vars

\* C14: is_tracking_robot() and is_tracking_object() both return the object
\* flag, which is false after construction and afterwards the argument of the
\* latest set_tracking_object; set_tracking_robot changes neither it nor the
\* object type; object_type() returns UNACQUIRED after construction and
\* afterwards the argument of the latest set_object_type.
C14_TrackingAccessors ==
    /\ ~m_tracking_object /\ m_object_type = UNACQUIRED
    /\ [][ /\ (last'.op = "is_tracking_robot" => ret' = m_tracking_object)
           /\ (last'.op = "is_tracking_object" => ret' = m_tracking_object)
           /\ (last'.op = "object_type" => ret' = m_object_type)
           /\ (IF last'.op = "set_tracking_object"
               THEN m_tracking_object' = last'.arg
               ELSE m_tracking_object' = m_tracking_object)
           /\ (IF last'.op = "set_object_type"
               THEN m_object_type' = last'.arg
               ELSE m_object_type' = m_object_type)
         ]_vars

\* C14 witness: is_tracking_robot() answers true after set_tracking_object(true)
\* although the robot flag is false
C14_Witness ==
    /\ last.op = "is_tracking_robot" /\ ret
    /\ m_tracking_object /\ ~m_tracking_robot

\* C15 as claimed: after a halt that returns, the slot of that kind is empty
\* and no instance of that kind is alive.
C15_HaltEmptiesSlot ==
    /\ (last.op = "halt_traversal" /\ ~crashed
           => m_procedure = nullptr /\ Instances("Procedure") = {})
    /\ (last.op = "halt_object_move" /\ ~crashed
           => m_object_procedure = nullptr /\ Instances("ObjectProcedure") = {})

\* C15 as amended: a halt keeps the instance in its slot; an instance stops
\* being alive only in a begin of its own kind, which replaces it, or when the
\* state is destroyed, and a slot changes only in those steps.
C15_InstanceLivesUntilNextBegin ==
    [][ /\ (last'.op = "halt_traversal" /\ m_procedure # nullptr
               => m_procedure' = m_procedure /\ heap'[m_procedure].live)
        /\ (last'.op = "halt_object_move" /\ m_object_procedure # nullptr
               => /\ m_object_procedure' = m_object_procedure
                  /\ heap'[m_object_procedure].live)
        /\ \A p \in ProcIds :
              heap[p].live /\ ~heap'[p].live
                 => \/ heap[p].kind = "Procedure" /\ last'.op = "begin_traversal"
                    \/ heap[p].kind = "ObjectProcedure" /\ last'.op = "begin_object_move"
                    \/ last'.op = "~CompetitionState"
        /\ (m_procedure' # m_procedure
               => last'.op \in {"begin_traversal", "~CompetitionState"})
        /\ (m_object_procedure' # m_object_procedure
               => last'.op \in {"begin_object_move", "~CompetitionState"})
        /\ (last'.op = "~CompetitionState" => LiveCells(heap') = {})
      ]_vars

\* C15 witness: halt_object_move returned and the object-move slot still owns
\* its instance, stopped
C15_Witness ==
    /\ last.op = "halt_object_move" /\ ~crashed
    /\ m_object_procedure # nullptr
    /\ heap[m_object_procedure].live
    /\ heap[m_object_procedure].kind = "ObjectProcedure"
    /\ ~heap[m_object_procedure].running

\* C16: a begin_traversal or halt_traversal that returns leaves the
\* object-move slot, its instance and that instance's running status as they
\* were, and begin_object_move and halt_object_move leave the traversal slot
\* as it was.
C16_SlotsIndependent ==
    [][ /\ (last'.op \in {"begin_traversal", "halt_traversal"}
               => /\ m_object_procedure' = m_object_procedure
                  /\ Instances("ObjectProcedure")' = Instances("ObjectProcedure")
                  /\ \A p \in Instances("ObjectProcedure") : heap'[p] = heap[p])
        /\ (last'.op \in {"begin_object_move", "halt_object_move"}
               => /\ m_procedure' = m_procedure
                  /\ Instances("Procedure")' = Instances("Procedure")
                  /\ \A p \in Instances("Procedure") : heap'[p] = heap[p])
      ]_vars

\* C16 witness: a traversal was begun while an object move was running, and
\* the object move is still running in its own cell
C16_Witness ==
    /\ last.op = "begin_traversal"
    /\ m_object_procedure = 1 /\ ObjectMoveRunning
    /\ m_procedure = 2 /\ TraversalRunning

\* C17: acquire_robot_box and get_robot_box leave the stored object rectangle
\* and the object's freshness flag as they were, and acquire_object_box and
\* get_object_box leave the robot's rectangle and flag as they were.
C17_BoxSlotsIndependent ==
    [][ /\ (last'.op \in {"acquire_robot_box", "get_robot_box"} /\ ~StoreStep
               => /\ box_object' = box_object
                  /\ m_object_box_fresh' = m_object_box_fresh)
        /\ (last'.op \in {"acquire_object_box", "get_object_box"} /\ ~StoreStep
               => /\ box_robot' = box_robot
                  /\ m_robot_box_fresh' = m_robot_box_fresh)
      ]_vars

\* C17 witness: the robot box was consumed while a different, acquired object
\* box stays fresh
C17_Witness ==
    /\ last.op = "get_robot_box" /\ last.arg
    /\ box_robot # ZeroRect /\ RobotFresh = {FALSE}
    /\ box_object # ZeroRect /\ box_object # box_robot
    /\ ObjectFresh = {TRUE}
    /\ m_robot_loc_label = RobotLabel /\ m_object_loc_label = ObjectLabel
    /\ label_text[RobotLabel] = center_text(box_robot, "Robot")
    /\ label_text[ObjectLabel] = center_text(box_object, "Object")

\* C18: with the display attached, which is the precondition of
\* acquire_robot_box and acquire_object_box, a call acquire_robot_box(r) or
\* acquire_object_box(r) makes exactly one setText call, with the centre
\* (x + width / 2, y + height / 2) of r, here in tenths, and that call changes
\* the text of the robot's, respectively the object's, label and of no other
\* label; no other step makes a setText call or changes a label;
\* acquire_target_box(r) stores r as the target rectangle, makes no setText
\* call and changes no freshness flag, label, robot or object rectangle.
C18_DisplayNotifications ==
    [][ /\ ((/\ last'.op = "acquire_robot_box" /\ ~StoreStep
             /\ m_robot_loc_label = RobotLabel)
               => /\ ~crashed'
                  /\ Len(setText_calls') = 1
                  /\ setText_calls'[1][2][1] = "Robot"
                  /\ 2 * setText_calls'[1][2][2] = 20 * last'.arg.x + 10 * last'.arg.width
                  /\ 2 * setText_calls'[1][2][3] = 20 * last'.arg.y + 10 * last'.arg.height
                  /\ label_text'[RobotLabel] = setText_calls'[1][2]
                  /\ \A l \in Labels \ {RobotLabel} : label_text'[l] = label_text[l])
        /\ ((/\ last'.op = "acquire_object_box" /\ ~StoreStep
             /\ m_object_loc_label = ObjectLabel)
               => /\ ~crashed'
                  /\ Len(setText_calls') = 1
                  /\ setText_calls'[1][2][1] = "Object"
                  /\ 2 * setText_calls'[1][2][2] = 20 * last'.arg.x + 10 * last'.arg.width
                  /\ 2 * setText_calls'[1][2][3] = 20 * last'.arg.y + 10 * last'.arg.height
                  /\ label_text'[ObjectLabel] = setText_calls'[1][2]
                  /\ \A l \in Labels \ {ObjectLabel} : label_text'[l] = label_text[l])
        /\ (last'.op \notin {"acquire_robot_box", "acquire_object_box"}
               => setText_calls' = <<>> /\ label_text' = label_text)
        /\ (last'.op = "acquire_target_box" /\ ~StoreStep
               => /\ box_target' = last'.arg
                  /\ box_robot' = box_robot /\ box_object' = box_object
                  /\ m_robot_box_fresh' = m_robot_box_fresh
                  /\ m_object_box_fresh' = m_object_box_fresh)
      ]_vars

\* C18 witness: with the display attached, acquire_object_box({1, 2, 10, 10})
\* told the object's label the centre (6.0, 7.0)
C18_Witness ==
    /\ last.op = "acquire_object_box"
    /\ last.arg = Rect2d(1, 2, 10, 10)
    /\ m_object_loc_label = ObjectLabel
    /\ setText_calls = << <<"m_object_loc_label", <<"Object", 60, 70>> >> >>
    /\ label_text[ObjectLabel] = <<"Object", 60, 70>>

\* the aspect ratio t a finished call of acquisition_r computed: its first
\* division
ScoreT == Rat(score_out.divisions[1][1], score_out.divisions[1][2])

\* the call returned from the squareness rejection: it divided once, for t
ScoreRejected == Len(score_out.divisions) = 1

\* C19 as claimed: for every rectangle of non-zero area, of either sign of
\* width and height, t is at least 1 and the rejection t <= 0.99 is not taken.
C19_AspectAtLeastOne ==
    score_pc = "returned" /\ score_rect.width * score_rect.height # 0
        => RLeq(Rat(1, 1), ScoreT) /\ ~ScoreRejected

\* C19 as amended: for positive width and height t is at least 1 and the
\* rejection is not taken; with exactly one of them negative t is negative,
\* the rejection is taken and the score is 1000.
C19_AspectAtLeastOneIfPositive ==
    /\ (score_pc = "returned" /\ score_rect.width > 0 /\ score_rect.height > 0
           => RLeq(Rat(1, 1), ScoreT) /\ ~ScoreRejected)
    /\ (score_pc = "returned" /\ score_rect.width * score_rect.height < 0
           => /\ RLess(ScoreT, Rat(0, 1))
              /\ ScoreRejected
              /\ score_out.ret = [num |-> 1000, den |-> 1])

\* C19 witness: the 5 x 20 rectangle, scored with t = 4 and not rejected
C19_Witness ==
    /\ score_pc = "returned"
    /\ score_rect.width = 5 /\ score_rect.height = 20
    /\ ScoreT = [num |-> 4, den |-> 1]
    /\ ~ScoreRejected

\* C20 as claimed: a newly constructed state has both boxes not fresh, zero
\* rectangles, both tracking flags false and an empty path, and a box is fresh
\* only after an acquisition of it (no rectangle that is acquired or stored
\* here is the zero rectangle, so a stored zero rectangle means none has
\* happened).
C20_FreshOnlyAfterAcquire ==
    /\ (last.op = "CompetitionState"
           => /\ RobotFresh = {FALSE} /\ ObjectFresh = {FALSE}
              /\ box_robot = ZeroRect /\ box_object = ZeroRect /\ box_target = ZeroRect
              /\ ~m_tracking_robot /\ ~m_tracking_object
              /\ m_path = <<>>)
    /\ (TRUE \in RobotFresh => box_robot # ZeroRect)
    /\ (TRUE \in ObjectFresh => box_object # ZeroRect)

=============================================================================
